---- MODULE Spec2Model ----
(***************************************************************************)
(* QA Intelligence Dashboard: the Azure DevOps aggregation service         *)
(* (AzureDevOpsService) and the App's refresh orchestration.               *)
(*                                                                         *)
(* Strings that the code takes apart (area paths, module names) are        *)
(* sequences of one-character strings; numbers that the code divides       *)
(* (pass rates) are exact rationals [kind, n, d] with the two IEEE         *)
(* specials NaN and Infinity kept apart.                                   *)
(***************************************************************************)
EXTENDS Integers, Sequences, FiniteSets, TLC

VARIABLES
    remote,     \* what the Azure DevOps REST API answers (fixed per behaviour)
    inflight,   \* requests issued and not yet answered
    reqLog,     \* requests issued by the current invocation, in order
    calls,      \* invocations started so far
    gpd,        \* locals of getProjectData (test-plan-centric)
    gd,         \* locals of getDefects
    pl,         \* locals of getTestResultsByPipelines / getProjectDataFromPipelines
    returned,   \* values returned to the caller, one per finished invocation
    app         \* React state of <App/> and its running refreshData calls

vars == <<remote, inflight, reqLog, calls, gpd, gd, pl, returned, app>>

-----------------------------------------------------------------------------
(* Bounds of the model *)

MaxCount == 1       \* largest totalTests of one test run
MaxRuns == 2        \* most test runs in one listing
MaxDefects == 2     \* most work items in the plan-centric defect query
MaxCalls == 2       \* invocations of one aggregation per behaviour
MaxBuilds == 3      \* most builds in one build listing
MaxItems == 2       \* most work items in one transformDefects call
MaxIds == 350       \* most ids a WIQL query returns in the getDefects model
MaxRefreshes == 2   \* activations of refreshData in one behaviour, the first render included

-----------------------------------------------------------------------------
(* Generic helpers *)

Min(a, b) == IF a < b THEN a ELSE b

SeqsUpTo(S, n) == UNION {[1..k -> S] : k \in 0..n}

RECURSIVE SeqSum(_)
SeqSum(s) == IF s = <<>> THEN 0 ELSE s[1] + SeqSum(Tail(s))

RECURSIVE GCD(_, _)
GCD(a, b) == IF b = 0 THEN a ELSE GCD(b, a % b)

\* JavaScript Array.prototype.slice(0, n)
slice0(s, n) == SubSeq(s, 1, Min(Len(s), n))

-----------------------------------------------------------------------------
(* Numbers: the results of JavaScript's / on non-negative integers *)

Num(n, d) == LET g == GCD(n, d) IN [kind |-> "num", n |-> n \div g, d |-> d \div g]
Zero == [kind |-> "num", n |-> 0, d |-> 1]
NaN == [kind |-> "NaN", n |-> 0, d |-> 0]
Infinity == [kind |-> "Infinity", n |-> 1, d |-> 0]

\* (a / b) * 100 as JavaScript evaluates it: 0/0 is NaN, x/0 is Infinity
DivTimes100(a, b) ==
    IF b = 0 THEN (IF a = 0 THEN NaN ELSE Infinity) ELSE Num(a * 100, b)

\* parseFloat(x.toFixed(1)): one decimal place, halves rounded up
toFixed1(x) ==
    IF x.kind # "num" THEN x ELSE Num((20 * x.n + x.d) \div (2 * x.d), 10)

\* mutant of buildBreakdown: the zero guard dropped
buildBreakdownUnguarded(total, passed, failed, skipped) ==
    [total |-> total, passed |-> passed, failed |-> failed, skipped |-> skipped,
     passRate |-> toFixed1(DivTimes100(passed, passed + failed))]

buildBreakdown(total, passed, failed, skipped) ==
    [total |-> total, passed |-> passed, failed |-> failed, skipped |-> skipped,
     passRate |-> IF (passed + failed) > 0
                  THEN toFixed1(DivTimes100(passed, passed + failed))
                  ELSE Zero]

-----------------------------------------------------------------------------
(* Strings *)

BS == "\\"

RECURSIVE split(_, _)
split(s, sep) ==
    IF \E i \in 1..Len(s) : s[i] = sep
    THEN LET i == CHOOSE k \in 1..Len(s) : s[k] = sep /\ \A j \in 1..(k - 1) : s[j] # sep
         IN  <<SubSeq(s, 1, i - 1)>> \o split(SubSeq(s, i + 1, Len(s)), sep)
    ELSE <<s>>

pop(arr) == arr[Len(arr)]

-----------------------------------------------------------------------------
(* Remote data of the test-plan-centric strategy *)

ProjectName == <<"P">>

\* AzureTestRun: the counters of one run; passed + failed + notApplicable <= total
RunShapes ==
    {r \in [totalTests : 0..MaxCount, passedTests : 0..MaxCount,
            failedTests : 0..MaxCount, notApplicableTests : 0..MaxCount,
            isAutomated : BOOLEAN] :
        r.passedTests + r.failedTests + r.notApplicableTests <= r.totalTests}

OneRun == [totalTests |-> 1, passedTests |-> 1, failedTests |-> 0,
           notApplicableTests |-> 0, isAutomated |-> TRUE]

\* area path names returned by getAreaPaths (children of the root node)
AreaPathLists ==
    {<<>>, << <<"a">> >>, << <<"a">>, <<"b">> >>, << <<"b">>, <<"a">> >>,
     << <<"a">>, <<"a">> >>, << <<"a">>, <<"a", "b">> >>}

\* System.AreaPath values of work items
PathPool ==
    {<<"P", BS, "a">>, <<"P", BS, "b">>, <<"a">>, <<"a", BS, "P">>,
     <<"P", BS, "a", BS>>, <<"P", BS, "a", "b">>, <<"P", BS, "b", BS, "a">>}

\* work items in WIQL order (ORDER BY CreatedDate DESC): distinct ids
WorkItems(paths) ==
    [i \in 1..Len(paths) |-> [id |-> 40 + Len(paths) - i, AreaPath |-> paths[i]]]

PlanOps == {"getTestRuns", "getAreaPaths", "wiql", "workitems"}

PlanRemotes ==
    \* every run listing, no defects
    {[testRuns |-> t, areaPaths |-> a, bugs |-> <<>>, fails |-> {}] :
        t \in SeqsUpTo(RunShapes, MaxRuns), a \in {<< <<"a">>, <<"b">> >>}}
    \cup
    \* every defect listing against every area path listing
    {[testRuns |-> << OneRun >>, areaPaths |-> a, bugs |-> WorkItems(p), fails |-> {}] :
        a \in AreaPathLists, p \in SeqsUpTo(PathPool, MaxDefects)}
    \cup
    \* every combination of failing requests
    {[testRuns |-> << OneRun >>, areaPaths |-> << <<"a">> >>,
      bugs |-> WorkItems(p), fails |-> f] :
        p \in {<<>>, << <<"P", BS, "a">> >>}, f \in SUBSET PlanOps}

-----------------------------------------------------------------------------
(* getProjectData: the synchronous fold after Promise.all *)

Null == [kind |-> "null"]

emptyMap == [order |-> <<>>, mods |-> <<>>]

\* Map.prototype.set: a new key goes last, an existing key keeps its place
MapSet(m, k, v) ==
    [order |-> IF k \in DOMAIN m.mods THEN m.order ELSE Append(m.order, k),
     mods |-> (k :> v) @@ m.mods]

\* Array.from(map.values())
MapValues(m) == [i \in 1..Len(m.order) |-> m.mods[m.order[i]]]

\* mutant of NewModule: linkedDefects kept from the map of the previous invocation
CachedModule(areaPath) ==
    [moduleId |-> <<"m", "o", "d", "-">> \o areaPath, moduleName |-> areaPath,
     totalTests |-> 0, executed |-> 0, passed |-> 0, failed |-> 0, skipped |-> 0,
     passRate |-> Zero, automatedTests |-> 0, manualTests |-> 0,
     automated |-> buildBreakdown(0, 0, 0, 0), manual |-> buildBreakdown(0, 0, 0, 0),
     linkedDefects |-> IF areaPath \in DOMAIN gpd.moduleMap.mods
                       THEN gpd.moduleMap.mods[areaPath].linkedDefects ELSE <<>>]

NewModule(areaPath) ==
    [moduleId |-> <<"m", "o", "d", "-">> \o areaPath, moduleName |-> areaPath,
     totalTests |-> 0, executed |-> 0, passed |-> 0, failed |-> 0, skipped |-> 0,
     passRate |-> Zero, automatedTests |-> 0, manualTests |-> 0,
     automated |-> buildBreakdown(0, 0, 0, 0), manual |-> buildBreakdown(0, 0, 0, 0),
     linkedDefects |-> <<>>]

RECURSIVE InitModules(_, _)
InitModules(m, areaPaths) ==
    IF areaPaths = <<>> THEN m
    ELSE InitModules(MapSet(m, Head(areaPaths), NewModule(Head(areaPaths))),
                     Tail(areaPaths))

\* mutant of DefectAreaPath: the first path segment instead of the last
DefectAreaPathFirst(defect) == split(defect.AreaPath, BS)[1]

\* defect.fields['System.AreaPath'].split('\\').pop() || ''
DefectAreaPath(defect) == pop(split(defect.AreaPath, BS))

RECURSIVE LinkDefects(_, _)
LinkDefects(m, defects) ==
    IF defects = <<>> THEN m
    ELSE LET defect == Head(defects)
             areaPath == DefectAreaPath(defect)
             linked ==
                IF areaPath \in DOMAIN m.mods
                THEN [m EXCEPT !.mods[areaPath].linkedDefects =
                                    Append(@, ToString(defect.id))]
                ELSE m
         IN  LinkDefects(linked, Tail(defects))

Field(s, f) == [i \in 1..Len(s) |-> s[i][f]]

AutomatedRuns(testRuns) == SelectSeq(testRuns, LAMBDA r : r.isAutomated)
ManualRuns(testRuns) == SelectSeq(testRuns, LAMBDA r : ~r.isAutomated)

ModulePassRate(module) ==
    IF module.executed > 0 THEN DivTimes100(module.passed, module.executed) ELSE Zero

\* the returned ProjectData: counters folded from the runs, modules from the map
PlanProject(modules, testRuns) ==
    LET totalTests == SeqSum(Field(testRuns, "totalTests"))
        totalPassed == SeqSum(Field(testRuns, "passedTests"))
        totalFailed == SeqSum(Field(testRuns, "failedTests"))
        totalSkipped == SeqSum(Field(testRuns, "notApplicableTests"))
        totalAutomated == SeqSum(Field(AutomatedRuns(testRuns), "totalTests"))
        totalManual == SeqSum(Field(ManualRuns(testRuns), "totalTests"))
        executed == totalTests
    IN  [kind |-> "project", projectName |-> ProjectName, modules |-> modules,
         totalTests |-> totalTests, executed |-> executed, passed |-> totalPassed,
         failed |-> totalFailed, skipped |-> totalSkipped,
         passRate |-> IF executed > 0 THEN DivTimes100(totalPassed, executed) ELSE Zero,
         automatedTests |-> totalAutomated, manualTests |-> totalManual,
         automated |-> buildBreakdown(totalAutomated, totalPassed, totalFailed, totalSkipped),
         manual |-> buildBreakdown(totalManual, 0, 0, 0)]

\* lines 524-599: [moduleMap after the fold, the value returned]
getProjectDataFold(testRuns, areaPaths, defects) ==
    LET moduleMap == LinkDefects(InitModules(emptyMap, areaPaths), defects)
        values == MapValues(moduleMap)
        modules == [i \in 1..Len(values) |->
                        [values[i] EXCEPT !.passRate = ModulePassRate(values[i])]]
    IN  [moduleMap |-> moduleMap, result |-> PlanProject(modules, testRuns)]

-----------------------------------------------------------------------------
(* The request layer shared by the specifications *)

NotYet == [got |-> FALSE]
Got(v) == [got |-> TRUE, v |-> v]

gpdIdle == [pc |-> "idle", testRuns |-> NotYet, areaPaths |-> NotYet,
            defects |-> NotYet, moduleMap |-> emptyMap]
gdIdle == [pc |-> "idle", caller |-> "direct"]
plIdle == [pc |-> "idle"]
appPlans == [dataSource |-> "testplans"]
appPipelines == [dataSource |-> "pipelines"]

\* a request: the operation and the build or run it is about (0: the project)
Req(op, id) == [op |-> op, id |-> id]

BatchCap == 200

\* mutant of BatchIds: no cap on the batch
BatchIdsAll(workItems) == Field(workItems, "id")

\* wiqlResponse.workItems.map(wi => wi.id).slice(0, 200)
BatchIds(workItems) == slice0(Field(workItems, "id"), BatchCap)

\* the server's answer to the batch request: the work items with the ids asked for
WorkItemsOf(ids) ==
    SelectSeq(remote.bugs, LAMBDA wi : \E i \in 1..Len(ids) : ids[i] = wi.id)

-----------------------------------------------------------------------------
(* getProjectData as a process: three fetches under Promise.all *)

\* mutant of PlanReject: Promise.allSettled, the failed fetch counted as empty
PlanRejectSettled ==
    IF gpd.pc = "await"
    THEN /\ gpd' = [gpd EXCEPT !.pc = "done"]
         /\ returned' = Append(returned,
                                getProjectDataFold(
                                    IF gpd.testRuns.got THEN gpd.testRuns.v ELSE <<>>,
                                    IF gpd.areaPaths.got THEN gpd.areaPaths.v ELSE <<>>,
                                    IF gpd.defects.got THEN gpd.defects.v ELSE <<>>).result)
    ELSE UNCHANGED <<gpd, returned>>

\* the await of Promise.all rejects: the catch block returns null
PlanReject ==
    IF gpd.pc = "await"
    THEN /\ gpd' = [gpd EXCEPT !.pc = "done"]
         /\ returned' = Append(returned, Null)
    ELSE UNCHANGED <<gpd, returned>>

\* one of the three promises fulfils; with all three the fold runs
PlanFulfil(field, v) ==
    IF gpd.pc = "await"
    THEN LET g == [gpd EXCEPT ![field] = Got(v)]
         IN  IF g.testRuns.got /\ g.areaPaths.got /\ g.defects.got
             THEN LET out == getProjectDataFold(g.testRuns.v, g.areaPaths.v, g.defects.v)
                  IN  /\ gpd' = [g EXCEPT !.pc = "done", !.moduleMap = out.moduleMap]
                      /\ returned' = Append(returned, out.result)
             ELSE /\ gpd' = g
                  /\ UNCHANGED returned
    ELSE UNCHANGED <<gpd, returned>>

GetProjectData ==
    /\ app.dataSource = "testplans"
    /\ gpd.pc \in {"idle", "done"}
    /\ inflight = {}
    /\ calls < MaxCalls
    /\ calls' = calls + 1
    /\ gpd' = [gpd EXCEPT !.pc = "await", !.testRuns = NotYet,
                          !.areaPaths = NotYet, !.defects = NotYet]
    /\ inflight' = {Req("getTestRuns", 0), Req("getAreaPaths", 0), Req("wiql", 0)}
    /\ reqLog' = <<Req("getTestRuns", 0), Req("getAreaPaths", 0), Req("wiql", 0)>>
    /\ gd' = [pc |-> "wiql", caller |-> "getProjectData"]
    /\ UNCHANGED <<remote, pl, returned, app>>

TestRunsResponse ==
    /\ Req("getTestRuns", 0) \in inflight
    /\ inflight' = inflight \ {Req("getTestRuns", 0)}
    /\ IF "getTestRuns" \in remote.fails
       THEN PlanReject
       ELSE PlanFulfil("testRuns", remote.testRuns)
    /\ UNCHANGED <<remote, reqLog, calls, gd, pl, app>>

AreaPathsResponse ==
    /\ Req("getAreaPaths", 0) \in inflight
    /\ inflight' = inflight \ {Req("getAreaPaths", 0)}
    /\ IF "getAreaPaths" \in remote.fails
       THEN PlanReject
       ELSE PlanFulfil("areaPaths", remote.areaPaths)
    /\ UNCHANGED <<remote, reqLog, calls, gd, pl, app>>

\* getDefects returns v to its caller
DefectsReturn(v) ==
    /\ gd' = [gd EXCEPT !.pc = "done"]
    /\ IF gd.caller = "getProjectData"
       THEN PlanFulfil("defects", v)
       ELSE /\ returned' = Append(returned, [kind |-> "defects", value |-> v])
            /\ UNCHANGED gpd

\* a request of getDefects fails: the rejection reaches the caller
DefectsThrow ==
    /\ gd' = [gd EXCEPT !.pc = "done"]
    /\ IF gd.caller = "getProjectData"
       THEN PlanReject
       ELSE /\ returned' = Append(returned, [kind |-> "throw"])
            /\ UNCHANGED gpd

\* getDefects called on its own, as the defect loops of the application do
GetDefects ==
    /\ app.dataSource = "defects"
    /\ gd.pc \in {"idle", "done"}
    /\ inflight = {}
    /\ calls < MaxCalls
    /\ calls' = calls + 1
    /\ gd' = [pc |-> "wiql", caller |-> "direct"]
    /\ inflight' = {Req("wiql", 0)}
    /\ reqLog' = <<Req("wiql", 0)>>
    /\ UNCHANGED <<remote, gpd, pl, returned, app>>

WiqlResponse ==
    /\ Req("wiql", 0) \in inflight
    /\ IF "wiql" \in remote.fails
       THEN /\ inflight' = inflight \ {Req("wiql", 0)}
            /\ DefectsThrow
            /\ UNCHANGED reqLog
       ELSE IF remote.bugs = <<>>
       THEN /\ inflight' = inflight \ {Req("wiql", 0)}
            /\ DefectsReturn(<<>>)
            /\ UNCHANGED reqLog
       ELSE /\ inflight' = (inflight \ {Req("wiql", 0)}) \cup {Req("workitems", 0)}
            /\ reqLog' = Append(reqLog, [op |-> "workitems", id |-> 0,
                                         ids |-> BatchIds(remote.bugs)])
            /\ gd' = [gd EXCEPT !.pc = "workitems"]
            /\ UNCHANGED <<gpd, returned>>
    /\ UNCHANGED <<remote, calls, pl, app>>

WorkItemsResponse ==
    /\ Req("workitems", 0) \in inflight
    /\ inflight' = inflight \ {Req("workitems", 0)}
    /\ IF "workitems" \in remote.fails
       THEN DefectsThrow
       ELSE DefectsReturn(WorkItemsOf(reqLog[Len(reqLog)].ids))
    /\ UNCHANGED <<remote, reqLog, calls, pl, app>>

-----------------------------------------------------------------------------
(* Remote data of the pipeline-centric strategy *)

ResP == [outcome |-> "Passed", automatedTestName |-> TRUE]
ResF == [outcome |-> "Failed", automatedTestName |-> FALSE]
ResN == [outcome |-> "NotExecuted", automatedTestName |-> TRUE]

Results(v) == [fail |-> FALSE, value |-> v]
Fails == [fail |-> TRUE, value |-> <<>>]

PipeRun(total, passed, failed, na, results) ==
    [totalTests |-> total, passedTests |-> passed, failedTests |-> failed,
     notApplicableTests |-> na, isAutomated |-> TRUE, results |-> results]

R0 == PipeRun(0, 0, 0, 0, Results(<<>>))
R1 == PipeRun(2, 1, 1, 0, Results(<<ResP, ResF>>))
R2 == PipeRun(1, 0, 0, 1, Results(<<ResN>>))
R3 == PipeRun(1, 1, 0, 0, Fails)

PipeRunPool == {R0, R1, R2, R3}

\* what getTestRunsForBuild answers for one build
RunListings ==
    {Fails, Results(<<>>), Results(<<R1>>), Results(<<R1, R3>>)}

DefinitionName(d) == <<"d", ToString(d)>>

BuildShapes == [definitionId : {1, 2}, testRuns : RunListings]

\* AzureBuild records of one listing: ids by position, runs numbered per build
Builds(shapes) ==
    [i \in 1..Len(shapes) |->
        [id |-> i, definition |-> [id |-> shapes[i].definitionId,
                                   name |-> DefinitionName(shapes[i].definitionId)],
         finishTime |-> i, testRuns |-> shapes[i].testRuns]]

PipeRemotes ==
    \* the build listing fails
    {[buildsFail |-> TRUE, builds |-> <<>>]}
    \cup
    \* every listing of builds, each failing or succeeding in its own way
    {[buildsFail |-> FALSE, builds |-> Builds(b)] : b \in SeqsUpTo(BuildShapes, MaxBuilds)}
    \cup
    \* one build with every listing of runs
    {[buildsFail |-> FALSE,
      builds |-> Builds(<<[definitionId |-> 1, testRuns |-> Results(t)]>>)] :
        t \in SeqsUpTo(PipeRunPool, MaxRuns)}

-----------------------------------------------------------------------------
(* getProjectDataFromPipelines: the code after getTestResultsByPipelines *)

\* mutant of EmptyProject: one test counted as executed
EmptyProjectOneExecuted ==
    [kind |-> "project", projectName |-> ProjectName, modules |-> <<>>,
     totalTests |-> 0, executed |-> 1, passed |-> 0, failed |-> 0, skipped |-> 0,
     passRate |-> Zero, automatedTests |-> 0, manualTests |-> 0,
     automated |-> buildBreakdown(0, 0, 0, 0), manual |-> buildBreakdown(0, 0, 0, 0)]

EmptyProject ==
    [kind |-> "project", projectName |-> ProjectName, modules |-> <<>>,
     totalTests |-> 0, executed |-> 0, passed |-> 0, failed |-> 0, skipped |-> 0,
     passRate |-> Zero, automatedTests |-> 0, manualTests |-> 0,
     automated |-> buildBreakdown(0, 0, 0, 0), manual |-> buildBreakdown(0, 0, 0, 0)]

\* mutant of PipelineProject: the totals of the builds returned without modules
PipelineProjectNoModules(pipelineResults) ==
    IF pipelineResults = <<>> THEN EmptyProject
    ELSE [EmptyProject EXCEPT
            !.totalTests = SeqSum(Field(pipelineResults, "totalTests")),
            !.passed = SeqSum(Field(pipelineResults, "passed")),
            !.failed = SeqSum(Field(pipelineResults, "failed")),
            !.skipped = SeqSum(Field(pipelineResults, "skipped")),
            !.executed = SeqSum(Field(pipelineResults, "passed"))
                         + SeqSum(Field(pipelineResults, "failed"))]

\* mutant of PipelineProject: nothing to report is reported as null
PipelineProjectNullWhenEmpty(pipelineResults) ==
    IF pipelineResults = <<>> THEN Null ELSE Null

\* lines 428-501. An empty listing gives the all-zero Project. Otherwise the
\* callback of pipelineResults.map builds its first module literal, which reads
\* the identifiers `automated` and `manual` (lines 466-467); no scope declares
\* them, the read throws a ReferenceError, and the catch of line 498 returns null.
PipelineProject(pipelineResults) ==
    IF pipelineResults = <<>> THEN EmptyProject ELSE Null

-----------------------------------------------------------------------------
(* getTestResultsByPipelines as a process: one request at a time *)

ZeroTotals == [totalTests |-> 0, passed |-> 0, failed |-> 0, skipped |-> 0]

\* lines 387-390
AddRun(t, run) ==
    [totalTests |-> t.totalTests + run.totalTests, passed |-> t.passed + run.passedTests,
     failed |-> t.failed + run.failedTests, skipped |-> t.skipped + run.notApplicableTests]

\* lines 396-407
PipelineResult(build, t, allResults) ==
    [pipelineName |-> build.definition.name, definitionId |-> build.definition.id,
     buildId |-> build.id, completedDate |-> build.finishTime,
     totalTests |-> t.totalTests, passed |-> t.passed, failed |-> t.failed,
     skipped |-> t.skipped, results |-> allResults]

\* the for loop reaches build k: its test runs are requested, or the loop ends
\* and getProjectDataFromPipelines returns
PipeGoto(k, pipelineResults) ==
    IF k <= Len(remote.builds)
    THEN /\ pl' = [pl EXCEPT !.pc = "testRuns", !.bi = k, !.pipelineResults = pipelineResults]
         /\ inflight' = {Req("getTestRunsForBuild", remote.builds[k].id)}
         /\ reqLog' = Append(reqLog, Req("getTestRunsForBuild", remote.builds[k].id))
         /\ UNCHANGED returned
    ELSE /\ pl' = [pl EXCEPT !.pc = "done", !.bi = k, !.pipelineResults = pipelineResults]
         /\ inflight' = {}
         /\ returned' = Append(returned, PipelineProject(pipelineResults))
         /\ UNCHANGED reqLog

RunId(build, ri) == 10 * build.id + ri

GetProjectDataFromPipelines ==
    /\ app.dataSource = "pipelines"
    /\ pl.pc \in {"idle", "done"}
    /\ inflight = {}
    /\ calls < MaxCalls
    /\ calls' = calls + 1
    /\ pl' = [pc |-> "builds", bi |-> 0, ri |-> 0, totals |-> ZeroTotals,
              allResults |-> <<>>, pipelineResults |-> <<>>]
    /\ inflight' = {Req("getBuildsByDate", 0)}
    /\ reqLog' = <<Req("getBuildsByDate", 0)>>
    /\ UNCHANGED <<remote, gpd, gd, returned, app>>

BuildsResponse ==
    /\ pl.pc = "builds"
    /\ Req("getBuildsByDate", 0) \in inflight
    /\ IF remote.buildsFail
       THEN /\ pl' = [pl EXCEPT !.pc = "done"]
            /\ inflight' = {}
            /\ returned' = Append(returned, Null)
            /\ UNCHANGED reqLog
       ELSE PipeGoto(1, <<>>)
    /\ UNCHANGED <<remote, calls, gpd, gd, app>>

\* mutant of TestRunsForBuildResponse: the result requests of all runs of
\* the build are issued together
TestRunsForBuildResponseFanOut ==
    /\ pl.pc = "testRuns"
    /\ LET build == remote.builds[pl.bi]
           testRuns == build.testRuns.value
       IN  IF build.testRuns.fail \/ testRuns = <<>>
           THEN PipeGoto(pl.bi + 1, pl.pipelineResults)
           ELSE /\ pl' = [pl EXCEPT !.pc = "results", !.ri = 1,
                                    !.totals = AddRun(ZeroTotals, testRuns[1]),
                                    !.allResults = <<>>]
                /\ inflight' = {Req("getTestResults", RunId(build, i)) :
                                    i \in 1..Len(testRuns)}
                /\ reqLog' = Append(reqLog, Req("getTestResults", RunId(build, 1)))
                /\ UNCHANGED returned
    /\ UNCHANGED <<remote, calls, gpd, gd, app>>

\* mutant of TestRunsForBuildResponse: a failed test-run listing is asked for
\* once more
TestRunsForBuildResponseRetry ==
    /\ pl.pc = "testRuns"
    /\ LET build == remote.builds[pl.bi]
           testRuns == build.testRuns.value
           asked == Len(SelectSeq(reqLog,
                                  LAMBDA q : q = Req("getTestRunsForBuild", build.id)))
       IN  IF build.testRuns.fail /\ asked < 2
           THEN /\ reqLog' = Append(reqLog, Req("getTestRunsForBuild", build.id))
                /\ UNCHANGED <<pl, inflight, returned>>
           ELSE IF build.testRuns.fail \/ testRuns = <<>>
           THEN PipeGoto(pl.bi + 1, pl.pipelineResults)
           ELSE /\ pl' = [pl EXCEPT !.pc = "results", !.ri = 1,
                                    !.totals = AddRun(ZeroTotals, testRuns[1]),
                                    !.allResults = <<>>]
                /\ inflight' = {Req("getTestResults", RunId(build, 1))}
                /\ reqLog' = Append(reqLog, Req("getTestResults", RunId(build, 1)))
                /\ UNCHANGED returned
    /\ UNCHANGED <<remote, calls, gpd, gd, app>>

TestRunsForBuildResponse ==
    /\ pl.pc = "testRuns"
    /\ LET build == remote.builds[pl.bi]
           testRuns == build.testRuns.value
       IN  IF build.testRuns.fail \/ testRuns = <<>>
           THEN PipeGoto(pl.bi + 1, pl.pipelineResults)
           ELSE /\ pl' = [pl EXCEPT !.pc = "results", !.ri = 1,
                                    !.totals = AddRun(ZeroTotals, testRuns[1]),
                                    !.allResults = <<>>]
                /\ inflight' = {Req("getTestResults", RunId(build, 1))}
                /\ reqLog' = Append(reqLog, Req("getTestResults", RunId(build, 1)))
                /\ UNCHANGED returned
    /\ UNCHANGED <<remote, calls, gpd, gd, app>>

\* mutant of TestResultsResponse: a build whose result fetch fails is kept
\* with what its earlier runs gave
TestResultsResponseKeepsPartial ==
    /\ pl.pc = "results"
    /\ LET build == remote.builds[pl.bi]
           testRuns == build.testRuns.value
           run == testRuns[pl.ri]
           allResults == pl.allResults \o run.results.value
       IN  IF run.results.fail
           THEN PipeGoto(pl.bi + 1,
                         Append(pl.pipelineResults,
                                PipelineResult(build, pl.totals, pl.allResults)))
           ELSE IF pl.ri < Len(testRuns)
           THEN /\ pl' = [pl EXCEPT !.ri = pl.ri + 1,
                                    !.totals = AddRun(pl.totals, testRuns[pl.ri + 1]),
                                    !.allResults = allResults]
                /\ inflight' = {Req("getTestResults", RunId(build, pl.ri + 1))}
                /\ reqLog' = Append(reqLog, Req("getTestResults", RunId(build, pl.ri + 1)))
                /\ UNCHANGED returned
           ELSE PipeGoto(pl.bi + 1,
                         Append(pl.pipelineResults,
                                PipelineResult(build, pl.totals, allResults)))
    /\ UNCHANGED <<remote, calls, gpd, gd, app>>

TestResultsResponse ==
    /\ pl.pc = "results"
    /\ LET build == remote.builds[pl.bi]
           testRuns == build.testRuns.value
           run == testRuns[pl.ri]
           allResults == pl.allResults \o run.results.value
       IN  IF run.results.fail
           THEN PipeGoto(pl.bi + 1, pl.pipelineResults)
           ELSE IF pl.ri < Len(testRuns)
           THEN /\ pl' = [pl EXCEPT !.ri = pl.ri + 1,
                                    !.totals = AddRun(pl.totals, testRuns[pl.ri + 1]),
                                    !.allResults = allResults]
                /\ inflight' = {Req("getTestResults", RunId(build, pl.ri + 1))}
                /\ reqLog' = Append(reqLog, Req("getTestResults", RunId(build, pl.ri + 1)))
                /\ UNCHANGED returned
           ELSE PipeGoto(pl.bi + 1,
                         Append(pl.pipelineResults,
                                PipelineResult(build, pl.totals, allResults)))
    /\ UNCHANGED <<remote, calls, gpd, gd, app>>

PipeInit ==
    /\ remote \in PipeRemotes
    /\ inflight = {}
    /\ reqLog = <<>>
    /\ calls = 0
    /\ gpd = gpdIdle
    /\ gd = gdIdle
    /\ pl = plIdle
    /\ returned = <<>>
    /\ app = appPipelines

PlanInit ==
    /\ remote \in PlanRemotes
    /\ inflight = {}
    /\ reqLog = <<>>
    /\ calls = 0
    /\ gpd = gpdIdle
    /\ gd = gdIdle
    /\ pl = plIdle
    /\ returned = <<>>
    /\ app = appPlans

-----------------------------------------------------------------------------
(* The two aggregation strategies, each invoked MaxCalls times on one remote *)

Init == PlanInit \/ PipeInit

Next ==
    \/ GetProjectData
    \/ TestRunsResponse
    \/ AreaPathsResponse
    \/ WiqlResponse
    \/ WorkItemsResponse
    \/ GetProjectDataFromPipelines
    \/ BuildsResponse
    \/ TestRunsForBuildResponse
    \/ TestResultsResponse

Spec == Init /\ [][Next]_vars

LastReturned == returned[Len(returned)]

-----------------------------------------------------------------------------
(* getDefects on its own, against projects with up to MaxIds open bugs *)

\* n bugs as the WIQL query lists them, newest first or oldest first
BugList(n, newestFirst) ==
    [i \in 1..n |-> [id |-> IF newestFirst THEN 1000 + n - i ELSE 1000 + i,
                     AreaPath |-> ProjectName]]

DefectRemotes ==
    {[bugs |-> BugList(n, o), fails |-> f] :
        n \in 0..MaxIds, o \in BOOLEAN, f \in SUBSET {"wiql", "workitems"}}

appDefects == [dataSource |-> "defects"]

DefectsInit ==
    /\ remote \in DefectRemotes
    /\ inflight = {}
    /\ reqLog = <<>>
    /\ calls = 0
    /\ gpd = gpdIdle
    /\ gd = gdIdle
    /\ pl = plIdle
    /\ returned = <<>>
    /\ app = appDefects

DefectsNext ==
    \/ GetDefects
    \/ WiqlResponse
    \/ WorkItemsResponse

SpecDefects == DefectsInit /\ [][DefectsNext]_vars

-----------------------------------------------------------------------------
(* The application: its state, the settings it reads, the synthetic data *)

Environments == {"QA", "Stage"}
DefaultEnvironment == "Stage"            \* defaultSettings.dashboard.defaultEnvironment
Dates == {1, 2}
DataSources == {"demo", "pipelines", "testplans"}
Credentials == {"", "x"}                 \* an empty string and a non-empty one
OrgProjects == <<"P1", "P2">>            \* what getProjects answers
EnabledProjectLists == {<<>>, <<"P1", "P2">>}

\* what mockData generates, named by generator and arguments (0: no date)
MockOutput(generator, env, date) ==
    [source |-> "mockData", generator |-> generator, env |-> env, date |-> date]

getTrendData(env) == MockOutput("getTrendData", env, 0)
getProjectsData(env, date) == MockOutput("getProjectsData", env, date)
getComparisonData(env) == MockOutput("getComparisonData", env, 0)
getMockDefects(env) == MockOutput("getDefects", env, 0)
getTestFailureDefects(env, date) == MockOutput("getTestFailureDefects", env, date)

\* a list obtained from the service
Fetched(list) == [source |-> "azureDevOps", list |-> list]

Message(text) == [kind |-> "message", text |-> text]

DefaultBaseUrl == "https://dev.azure.com"

\* mutant of isAzureDevOpsConfigured: the base URL is required as well
isAzureDevOpsConfiguredWithUrl(config) ==
    config.organization # "" /\ config.personalAccessToken # "" /\ config.baseUrl # ""

\* Boolean(config.organization && config.personalAccessToken)
isAzureDevOpsConfigured(config) ==
    config.organization # "" /\ config.personalAccessToken # ""

createAzureDevOpsService(config) ==
    IF ~isAzureDevOpsConfigured(config) THEN Null
    ELSE [kind |-> "service",
          baseUrl |-> IF config.baseUrl # "" THEN config.baseUrl ELSE DefaultBaseUrl,
          organization |-> config.organization,
          token |-> config.personalAccessToken]

\* SettingsContext: Boolean(settings.azureDevOps.organization && ...personalAccessToken)
isConfigured(settings) ==
    settings.azureDevOps.organization # "" /\ settings.azureDevOps.personalAccessToken # ""

\* settings?.dashboard?.dataSource || 'demo'
dataSource(settings) ==
    IF settings.dashboard.dataSource = "undefined" THEN "demo"
    ELSE settings.dashboard.dataSource

SettingsSet ==
    {[azureDevOps |-> [organization |-> o, personalAccessToken |-> t,
                       baseUrl |-> DefaultBaseUrl],
      projects |-> e, dashboard |-> [dataSource |-> d]] :
        o \in Credentials, t \in Credentials, e \in EnabledProjectLists,
        d \in DataSources \cup {"undefined"}}

\* the useState initial values of the first render
InitialApp(settings, defaultEnv) ==
    [settings |-> settings, loading |-> TRUE,
     selectedEnvironment |-> defaultEnv, selectedDate |-> 1,
     dataSourceError |-> Null,
     trends |-> getTrendData(defaultEnv),
     projects |-> getProjectsData(defaultEnv, 1),
     comparison |-> getComparisonData(defaultEnv),
     defects |-> getMockDefects(defaultEnv),
     testFailures |-> getTestFailureDefects(defaultEnv, 1),
     runs |-> <<>>, event |-> [type |-> "init", run |-> Null]]

-----------------------------------------------------------------------------
(* What the service answers to the application *)

Call(op, project) == [op |-> op, project |-> project]

AppCalls ==
    {Call("getProjects", "")}
    \cup {Call(op, OrgProjects[i]) : op \in {"aggregate", "getDefects"},
                                     i \in 1..Len(OrgProjects)}

\* the calls that fail, in the organisations considered
AppFaults ==
    {{}, {Call("getProjects", "")}, {Call("aggregate", "P1")},
     {Call("getDefects", "P2")}, {Call("aggregate", "P2"), Call("getDefects", "P1")}}

AppRemotes == {[projects |-> OrgProjects, fails |-> f] : f \in AppFaults}

\* the open bugs of a project
AppBugs(project) ==
    IF project = "P1"
    THEN << [id |-> 42, AreaPath |-> <<"P", BS, "a">>, Severity |-> "1 - Critical",
             State |-> "Active"] >>
    ELSE << [id |-> 43, AreaPath |-> <<"P", BS, "b">>, Severity |-> "",
             State |-> "Resolved"],
            [id |-> 44, AreaPath |-> <<"P">>, Severity |-> "4 - Low",
             State |-> "Proposed"] >>

\* the builds of a project that have test runs: none on day 1, one of P1 on day 2
AppPipelineResults(project, date) ==
    IF date = 2 /\ project = "P1"
    THEN << PipelineResult(Builds(<< [definitionId |-> 1, testRuns |-> Results(<<R1>>)] >>)[1],
                           AddRun(ZeroTotals, R1), R1.results.value) >>
    ELSE <<>>

Named(p, project) ==
    IF p.kind = "null" THEN p ELSE [p EXCEPT !.projectName = project]

\* the value of getProjectDataFromPipelines or getProjectData for one project
Aggregate(branch, project, date) ==
    IF Call("aggregate", project) \in remote.fails THEN Null
    ELSE IF branch = "fetchFromPipelines"
    THEN Named(PipelineProject(AppPipelineResults(project, date)), project)
    ELSE Named(getProjectDataFold(<<OneRun>>, << <<"a">> >>, AppBugs(project)).result,
               project)

\* mutant of severityMap: no fallback for a severity the map does not hold
severityMapNoFallback(s) ==
    CASE s = "1 - Critical" -> "critical"
      [] s = "2 - High" -> "major"
      [] s = "3 - Medium" -> "minor"
      [] s = "4 - Low" -> "trivial"
      [] OTHER -> "undefined"

\* severityMap[severity || ''] || 'minor'
severityMap(s) ==
    CASE s = "1 - Critical" -> "critical"
      [] s = "2 - High" -> "major"
      [] s = "3 - Medium" -> "minor"
      [] s = "4 - Low" -> "trivial"
      [] OTHER -> "minor"

statusMap(s) ==
    CASE s \in {"New", "Active"} -> "open"
      [] s = "In Progress" -> "in-progress"
      [] s = "Resolved" -> "resolved"
      [] s = "Closed" -> "closed"
      [] OTHER -> "open"

transformDefects(azureDefects, environment) ==
    [i \in 1..Len(azureDefects) |->
        [id |-> "DEF-" \o ToString(azureDefects[i].id),
         severity |-> severityMap(azureDefects[i].Severity),
         status |-> statusMap(azureDefects[i].State),
         environment |-> environment, linkedTestIds |-> <<>>]]

-----------------------------------------------------------------------------
(* refreshData: each activation is a run that keeps the values of the render
   it was created in and advances one await at a time; app.runs lists the
   activations that have not returned, app.event the last thing that happened *)

\* mutant of RefreshBranch: only the test-plan mode is told from the rest
RefreshBranchTwoWay(source, configured) ==
    IF source # "testplans" /\ configured THEN "fetchFromPipelines"
    ELSE IF source = "testplans" /\ configured THEN "fetchFromTestPlans"
    ELSE "fetchFromDemo"

\* the if / else if / else of refreshData
RefreshBranch(source, configured) ==
    IF source = "pipelines" /\ configured THEN "fetchFromPipelines"
    ELSE IF source = "testplans" /\ configured THEN "fetchFromTestPlans"
    ELSE "fetchFromDemo"

NotConfiguredMessage == Message("Azure DevOps not configured")

FailureMessage(branch) ==
    IF branch = "fetchFromPipelines" THEN Message("Failed to fetch pipeline data")
    ELSE Message("Failed to fetch Test Plans data")

AggregateOp(branch) ==
    IF branch = "fetchFromPipelines" THEN "getProjectDataFromPipelines"
    ELSE "getProjectData"

\* the closure of one activation
NewRun(a) ==
    [env |-> a.selectedEnvironment, date |-> a.selectedDate,
     dataSource |-> dataSource(a.settings), isConfigured |-> isConfigured(a.settings),
     branch |-> RefreshBranch(dataSource(a.settings), isConfigured(a.settings)),
     pc |-> "start", projectNames |-> <<>>, i |-> 0,
     projectDataList |-> <<>>, allDefects |-> <<>>, requests |-> <<>>]

\* mutant of Finish: the flag is left as it is
FinishStillLoading(a, k) ==
    [a EXCEPT !.runs = SubSeq(@, 1, k - 1) \o SubSeq(@, k + 1, Len(@)),
              !.event = [type |-> "refreshEnd", run |-> [a.runs[k] EXCEPT !.pc = "done"]]]

\* the fetch function has returned: setLoading(false)
Finish(a, k) ==
    [a EXCEPT !.loading = FALSE,
              !.runs = SubSeq(@, 1, k - 1) \o SubSeq(@, k + 1, Len(@)),
              !.event = [type |-> "refreshEnd", run |-> [a.runs[k] EXCEPT !.pc = "done"]]]

\* run k calls the service and waits for the answer
Await(a, k, pc, i, call) ==
    [a EXCEPT !.runs[k].pc = pc, !.runs[k].i = i,
              !.runs[k].requests = Append(@, call),
              !.event = [type |-> "other", run |-> Null]]

fetchFromDemo(a, r) ==
    [a EXCEPT !.dataSourceError = Null,
              !.trends = getTrendData(r.env),
              !.projects = getProjectsData(r.env, r.date),
              !.comparison = getComparisonData(r.env),
              !.defects = getMockDefects(r.env),
              !.testFailures = getTestFailureDefects(r.env, r.date)]

\* the defect loop at project j; past the last one the remaining setters run
DefectsLoop(a, k, j) ==
    LET r == a.runs[k]
    IN  IF j > Len(r.projectNames)
        THEN Finish([a EXCEPT !.defects = Fetched(r.allDefects),
                              !.trends = getTrendData(r.env),
                              !.comparison = getComparisonData(r.env),
                              !.testFailures = getTestFailureDefects(r.env, r.date)], k)
        ELSE Await(a, k, "getDefects", j, Call("getDefects", r.projectNames[j]))

\* the aggregation loop at project j; past the last one setProjects runs
AggregateLoop(a, k, j) ==
    LET r == a.runs[k]
    IN  IF j > Len(r.projectNames)
        THEN DefectsLoop([a EXCEPT !.projects = Fetched(r.projectDataList)], k, 1)
        ELSE Await(a, k, "aggregate", j, Call(AggregateOp(r.branch), r.projectNames[j]))

\* fetchFromPipelines and fetchFromTestPlans up to their first await
fetchRemote(a, k) ==
    LET r == a.runs[k]
        service == createAzureDevOpsService(a.settings.azureDevOps)
        enabledProjects == a.settings.projects
    IN  IF service.kind = "null"
        THEN Finish([a EXCEPT !.dataSourceError = NotConfiguredMessage], k)
        ELSE LET a1 == [a EXCEPT !.dataSourceError = Null]
             IN  IF Len(enabledProjects) > 0
                 THEN AggregateLoop([a1 EXCEPT !.runs[k].projectNames = enabledProjects],
                                    k, 1)
                 ELSE Await(a1, k, "getProjects", 0, Call("getProjects", ""))

\* refreshData up to its first await
refreshData(a) ==
    LET k == Len(a.runs) + 1
        r == NewRun(a)
        a0 == [a EXCEPT !.loading = TRUE, !.runs = Append(@, r)]
    IN  IF r.branch = "fetchFromDemo"
        THEN Finish(fetchFromDemo(a0, r), k)
        ELSE fetchRemote(a0, k)

AppUnchanged == UNCHANGED <<remote, inflight, reqLog, gpd, gd, pl, returned>>

Mounted == app.event.type # "init"

\* the effect of the first render
Mount ==
    /\ ~Mounted
    /\ calls' = calls + 1
    /\ app' = refreshData(app)
    /\ AppUnchanged

\* the Refresh button
OnRefresh ==
    /\ Mounted
    /\ calls < MaxRefreshes
    /\ calls' = calls + 1
    /\ app' = refreshData(app)
    /\ AppUnchanged

handleEnvironmentChange ==
    /\ Mounted
    /\ calls < MaxRefreshes
    /\ \E env \in Environments \ {app.selectedEnvironment} :
           app' = refreshData([app EXCEPT !.selectedEnvironment = env])
    /\ calls' = calls + 1
    /\ AppUnchanged

handleDateChange ==
    /\ Mounted
    /\ calls < MaxRefreshes
    /\ \E date \in Dates \ {app.selectedDate} :
           app' = refreshData([app EXCEPT !.selectedDate = date])
    /\ calls' = calls + 1
    /\ AppUnchanged

\* the data source is changed in the settings: the effect runs when the value
\* the application reads has changed
updateDashboardSettings ==
    /\ Mounted
    /\ calls < MaxRefreshes
    /\ \E d \in DataSources \ {app.settings.dashboard.dataSource} :
         LET a == [app EXCEPT !.settings.dashboard.dataSource = d]
         IN  IF dataSource(a.settings) # dataSource(app.settings)
             THEN /\ app' = refreshData(a)
                  /\ calls' = calls + 1
             ELSE /\ app' = [a EXCEPT !.event = [type |-> "other", run |-> Null]]
                  /\ UNCHANGED calls
    /\ AppUnchanged

\* the connection is changed in the settings: no effect depends on it
updateAzureDevOpsConfig ==
    /\ Mounted
    /\ \E o \in Credentials, t \in Credentials :
         /\ <<o, t>> # <<app.settings.azureDevOps.organization,
                        app.settings.azureDevOps.personalAccessToken>>
         /\ app' = [app EXCEPT !.settings.azureDevOps.organization = o,
                               !.settings.azureDevOps.personalAccessToken = t,
                               !.event = [type |-> "other", run |-> Null]]
    /\ UNCHANGED calls
    /\ AppUnchanged

ProjectsResponse ==
    /\ \E k \in 1..Len(app.runs) :
         /\ app.runs[k].pc = "getProjects"
         /\ app' = IF Call("getProjects", "") \in remote.fails
                   THEN Finish([app EXCEPT !.dataSourceError =
                                               FailureMessage(app.runs[k].branch)], k)
                   ELSE AggregateLoop([app EXCEPT !.runs[k].projectNames =
                                                      remote.projects], k, 1)
    /\ UNCHANGED calls
    /\ AppUnchanged

\* mutant of AggregationResponse: a project without data ends the batch
AggregationResponseAbort ==
    /\ \E k \in 1..Len(app.runs) :
         LET r == app.runs[k]
         IN  /\ r.pc = "aggregate"
             /\ LET data == Aggregate(r.branch, r.projectNames[r.i], r.date)
                IN  app' = IF data.kind = "null"
                           THEN Finish([app EXCEPT !.dataSourceError =
                                                       FailureMessage(r.branch)], k)
                           ELSE AggregateLoop([app EXCEPT !.runs[k].projectDataList =
                                                   Append(r.projectDataList, data)],
                                              k, r.i + 1)
    /\ UNCHANGED calls
    /\ AppUnchanged

AggregationResponse ==
    /\ \E k \in 1..Len(app.runs) :
         LET r == app.runs[k]
         IN  /\ r.pc = "aggregate"
             /\ \E data \in {Aggregate(r.branch, r.projectNames[r.i], r.date)} :
                  LET list == IF data.kind = "null" THEN r.projectDataList
                              ELSE Append(r.projectDataList, data)
                  IN  app' = AggregateLoop([app EXCEPT !.runs[k].projectDataList = list],
                                           k, r.i + 1)
    /\ UNCHANGED calls
    /\ AppUnchanged

\* mutant of DefectsResponse: a failed defect query ends the refresh with an
\* error and without defects
DefectsResponseAbort ==
    /\ \E k \in 1..Len(app.runs) :
         LET r == app.runs[k]
         IN  /\ r.pc = "getDefects"
             /\ LET project == r.projectNames[r.i]
                IN  app' = IF Call("getDefects", project) \in remote.fails
                           THEN Finish([app EXCEPT !.dataSourceError =
                                                       FailureMessage(r.branch),
                                                   !.runs[k].allDefects = <<>>], k)
                           ELSE DefectsLoop([app EXCEPT !.runs[k].allDefects =
                                                 r.allDefects \o
                                                 transformDefects(AppBugs(project), r.env)],
                                            k, r.i + 1)
    /\ UNCHANGED calls
    /\ AppUnchanged

DefectsResponse ==
    /\ \E k \in 1..Len(app.runs) :
         LET r == app.runs[k]
         IN  /\ r.pc = "getDefects"
             /\ LET project == r.projectNames[r.i]
                    all == IF Call("getDefects", project) \in remote.fails
                           THEN r.allDefects
                           ELSE r.allDefects \o transformDefects(AppBugs(project), r.env)
                IN  app' = DefectsLoop([app EXCEPT !.runs[k].allDefects = all], k, r.i + 1)
    /\ UNCHANGED calls
    /\ AppUnchanged

AppInit ==
    /\ remote \in AppRemotes
    /\ inflight = {}
    /\ reqLog = <<>>
    /\ calls = 0
    /\ gpd = gpdIdle
    /\ gd = gdIdle
    /\ pl = plIdle
    /\ returned = <<>>
    /\ app \in {InitialApp(st, DefaultEnvironment) : st \in SettingsSet}

AppNext ==
    \/ Mount
    \/ OnRefresh
    \/ handleEnvironmentChange
    \/ handleDateChange
    \/ updateDashboardSettings
    \/ updateAzureDevOpsConfig
    \/ ProjectsResponse
    \/ AggregationResponse
    \/ DefectsResponse

SpecApp == AppInit /\ [][AppNext]_vars

-----------------------------------------------------------------------------
(* The settings store: the connection settings, who may change them, and the
   service made from them *)

BaseUrls == {"", DefaultBaseUrl, "https://tfs.example"}
StoredCredentials == {"", "x", "y"}
UserRoles == {"admin", "lead", "viewer"}

AzureDevOpsConfigs ==
    [organization : StoredCredentials, personalAccessToken : StoredCredentials,
     baseUrl : BaseUrls]

\* defaultSettings.azureDevOps
defaultAzureDevOps ==
    [organization |-> "", personalAccessToken |-> "", baseUrl |-> DefaultBaseUrl]

\* canEditSettings
checkWritePermission(userRole) == userRole \in {"admin", "lead"}

\* one render of the provider over its settings
Store(azureDevOps, userRole, created) ==
    [dataSource |-> "settings",
     settings |-> [azureDevOps |-> azureDevOps],
     userRole |-> userRole,
     isConfigured |-> isConfigured([azureDevOps |-> azureDevOps]),
     created |-> created]

NothingCreated == [config |-> Null, service |-> Null]

SettingsUpdateAzureDevOpsConfig ==
    /\ app.dataSource = "settings"
    /\ checkWritePermission(app.userRole)
    /\ \E field \in {"organization", "personalAccessToken", "baseUrl"} :
         \E v \in (IF field = "baseUrl" THEN BaseUrls ELSE StoredCredentials) :
            /\ app.settings.azureDevOps[field] # v
            /\ app' = Store([app.settings.azureDevOps EXCEPT ![field] = v],
                            app.userRole, app.created)
    /\ UNCHANGED <<remote, inflight, reqLog, calls, gpd, gd, pl, returned>>

SettingsReset ==
    /\ app.dataSource = "settings"
    /\ app.userRole = "admin"
    /\ app.settings.azureDevOps # defaultAzureDevOps
    /\ app' = Store(defaultAzureDevOps, app.userRole, app.created)
    /\ UNCHANGED <<remote, inflight, reqLog, calls, gpd, gd, pl, returned>>

\* a fetch function asks for a service over the current settings
SettingsCreateService ==
    /\ app.dataSource = "settings"
    /\ LET made == [config |-> app.settings.azureDevOps,
                    service |-> createAzureDevOpsService(app.settings.azureDevOps)]
       IN  /\ made # app.created
           /\ app' = [app EXCEPT !.created = made]
    /\ UNCHANGED <<remote, inflight, reqLog, calls, gpd, gd, pl, returned>>

SettingsInit ==
    /\ remote = [fails |-> {}]
    /\ inflight = {}
    /\ reqLog = <<>>
    /\ calls = 0
    /\ gpd = gpdIdle
    /\ gd = gdIdle
    /\ pl = plIdle
    /\ returned = <<>>
    /\ app \in {Store(c, u, NothingCreated) : c \in AzureDevOpsConfigs, u \in UserRoles}

SettingsNext ==
    \/ SettingsUpdateAzureDevOpsConfig
    \/ SettingsReset
    \/ SettingsCreateService

SpecSettings == SettingsInit /\ [][SettingsNext]_vars

-----------------------------------------------------------------------------
(* transformDefects over lists of work items *)

Absent == "<absent>"                     \* the optional Severity field is missing

SeverityValues ==
    {Absent, "", "1 - Critical", "2 - High", "3 - Medium", "4 - Low", "5 - Cosmetic"}

StateValues == {"New", "Active", "In Progress", "Resolved", "Closed", "Proposed"}

\* a list of work items, ids by position
Numbered(shapes) ==
    [i \in 1..Len(shapes) |->
        [id |-> 100 + i, AreaPath |-> ProjectName,
         Severity |-> shapes[i].Severity, State |-> shapes[i].State]]

TransformRemotes ==
    {[bugs |-> Numbered(w), fails |-> {}] :
        w \in SeqsUpTo([Severity : SeverityValues, State : StateValues], MaxItems)}

TransformDefects ==
    /\ app.dataSource = "transform"
    /\ calls = 0
    /\ calls' = 1
    /\ \E env \in Environments :
           returned' = Append(returned, [kind |-> "defects", environment |-> env,
                                         value |-> transformDefects(remote.bugs, env)])
    /\ UNCHANGED <<remote, inflight, reqLog, gpd, gd, pl, app>>

TransformInit ==
    /\ remote \in TransformRemotes
    /\ inflight = {}
    /\ reqLog = <<>>
    /\ calls = 0
    /\ gpd = gpdIdle
    /\ gd = gdIdle
    /\ pl = plIdle
    /\ returned = <<>>
    /\ app = [dataSource |-> "transform"]

SpecTransform == TransformInit /\ [][TransformDefects]_vars

-----------------------------------------------------------------------------
(* The module overview: the defects a module links to, looked up at render time *)

\* defects.filter(d => defectIds.includes(d.id))
getLinkedDefects(defects, defectIds) ==
    SelectSeq(defects, LAMBDA d : \E i \in 1..Len(defectIds) : defectIds[i] = d.id)

-----------------------------------------------------------------------------
(* What the claims speak of *)

ReturnedProjects == {returned[i] : i \in {k \in 1..Len(returned) : returned[k].kind = "project"}}

Range(f) == {f[x] : x \in DOMAIN f}

\* every record of a Project that carries a passRate, tagged with its type
Rated(p) ==
    {[type |-> "Project", passed |-> p.passed, failed |-> p.failed, passRate |-> p.passRate]}
    \cup {[type |-> "Breakdown", passed |-> b.passed, failed |-> b.failed,
           passRate |-> b.passRate] : b \in {p.automated, p.manual}}
    \cup {[type |-> "Module", passed |-> m.passed, failed |-> m.failed,
           passRate |-> m.passRate] : m \in Range(p.modules)}
    \cup UNION {{[type |-> "Breakdown", passed |-> b.passed, failed |-> b.failed,
                  passRate |-> b.passRate] : b \in {m.automated, m.manual}} :
                    m \in Range(p.modules)}

SumOverModules(p, counter) == SeqSum(Field(p.modules, counter))

SumInvariant(p) ==
    /\ p.passed = SumOverModules(p, "passed")
    /\ p.failed = SumOverModules(p, "failed")
    /\ p.skipped = SumOverModules(p, "skipped")
    /\ p.totalTests = SumOverModules(p, "totalTests")

\* C1: every Project returned by getProjectData has passed, failed, skipped and
\* totalTests equal to the sums of the same counters over its modules.
C1_PlanSumInvariant ==
    app.dataSource = "testplans" => \A p \in ReturnedProjects : SumInvariant(p)

Survives(build) ==
    /\ ~build.testRuns.fail
    /\ build.testRuns.value # <<>>
    /\ \A r \in Range(build.testRuns.value) : ~r.results.fail

SurvivingBuilds == {b \in Range(remote.builds) : Survives(b)}

\* C3: when the test-run fetch of some builds fails and every other build
\* succeeds with at least one run, getProjectDataFromPipelines returns a Project
\* whose modules come from exactly the surviving builds.
C3_PartialFailureGivesProject ==
    ( /\ app.dataSource = "pipelines"
      /\ pl.pc = "done"
      /\ ~remote.buildsFail
      /\ \E b \in Range(remote.builds) : b.testRuns.fail
      /\ SurvivingBuilds # {}
      /\ \A b \in Range(remote.builds) : b.testRuns.fail \/ Survives(b) )
    => /\ LastReturned.kind = "project"
       /\ {m.lastRunTime : m \in Range(LastReturned.modules)}
            = {b.finishTime : b \in SurvivingBuilds}

\* C4: every Breakdown, Module and Project returned by either strategy has a
\* finite passRate, and passRate 0 when passed + failed = 0.
C4_PassRateZeroGuard ==
    \A p \in ReturnedProjects : \A x \in Rated(p) :
        /\ x.passRate.kind = "num"
        /\ (x.passed + x.failed = 0) => x.passRate = Zero

\* C4 witness: a Project with tests and skipped tests but none passed or failed
C4_Witness ==
    \E p \in ReturnedProjects :
        p.passed + p.failed = 0 /\ p.totalTests > 0 /\ p.skipped > 0

\* passed / (passed + failed) * 100, exactly
Formula(x) == Num(x.passed * 100, x.passed + x.failed)

\* C5: every Breakdown, Module and Project with passed + failed > 0 has passRate
\* passed / (passed + failed) * 100 (a Breakdown's rounded to one decimal).
C5_PassRateFormula ==
    \A p \in ReturnedProjects : \A x \in Rated(p) :
        (x.passed + x.failed > 0) =>
            IF x.type = "Breakdown" THEN x.passRate = toFixed1(Formula(x))
            ELSE x.passRate = Formula(x)

\* the part of a path after its last backslash
LastSegment(path) ==
    LET at == {i \in 1..Len(path) : path[i] = BS}
    IN  IF at = {} THEN path
        ELSE SubSeq(path, (CHOOSE i \in at : \A j \in at : j <= i) + 1, Len(path))

\* the work items the defect query fetched
FetchedDefects == Range(remote.bugs)

\* C6: a fetched defect's id is in linkedDefects of module M exactly when the
\* last segment of its AreaPath is M's moduleName.
C6_DefectLinkage ==
    app.dataSource = "testplans" =>
        \A p \in ReturnedProjects : \A m \in Range(p.modules) : \A d \in FetchedDefects :
            (ToString(d.id) \in Range(m.linkedDefects))
                <=> (LastSegment(d.AreaPath) = m.moduleName)

\* C6 witness: one defect linked to a module, another linked to none
C6_Witness ==
    /\ app.dataSource = "testplans"
    /\ \E p \in ReturnedProjects :
        /\ \E m \in Range(p.modules) : m.linkedDefects # <<>>
        /\ \E d \in FetchedDefects :
              \A m \in Range(p.modules) : ToString(d.id) \notin Range(m.linkedDefects)

\* C7: the invocations of one aggregation against the same remote responses
\* return the same value.
C7_Idempotent ==
    \A i, j \in 1..Len(returned) : returned[i] = returned[j]

\* C7 witness: a second invocation returned a Project with linked defects
C7_Witness ==
    /\ Len(returned) >= 2
    /\ returned[2].kind = "project"
    /\ \E m \in Range(returned[2].modules) : m.linkedDefects # <<>>

-----------------------------------------------------------------------------
(* C9 *)

BatchRequests == SelectSeq(reqLog, LAMBDA r : r.op = "workitems")

WiqlIds == [i \in 1..Len(remote.bugs) |-> remote.bugs[i].id]

\* C9: when the WIQL query of getDefects returns n >= 1 ids, getDefects issues
\* exactly one details request, for the first min(n, 200) ids in query order,
\* and never a second one; with no ids (or a failed query) it issues none.
C9_OneBatchOfFirst200 ==
    LET n == Len(remote.bugs)
        k == IF n < 200 THEN n ELSE 200
    IN  /\ Len(BatchRequests) <= 1
        /\ (gd.pc \in {"workitems", "done"} /\ "wiql" \notin remote.fails /\ n >= 1)
               => /\ Len(BatchRequests) = 1
                  /\ BatchRequests[1].ids = SubSeq(WiqlIds, 1, k)
        /\ (n = 0 \/ "wiql" \in remote.fails \/ gd.pc \in {"idle", "wiql"})
               => BatchRequests = <<>>
        /\ (gd.pc = "done" /\ remote.fails = {} /\ LastReturned.kind = "defects")
               => Len(LastReturned.value) = k

\* a query with more than 200 ids was answered and getDefects has returned
C9_Witness ==
    /\ Len(remote.bugs) > 200
    /\ gd.pc = "done"
    /\ remote.fails = {}
    /\ Len(BatchRequests) = 1
    /\ Len(BatchRequests[1].ids) = 200
    /\ Len(LastReturned.value) = 200

-----------------------------------------------------------------------------
(* C8, C10 *)

\* the activation of refreshData that has just returned
RefreshEnded == app.event.type = "refreshEnd"
EndedRun == app.event.run

SyntheticDisplayed(env, date) ==
    /\ app.trends = getTrendData(env)
    /\ app.projects = getProjectsData(env, date)
    /\ app.comparison = getComparisonData(env)
    /\ app.defects = getMockDefects(env)
    /\ app.testFailures = getTestFailureDefects(env, date)

\* C8: a refresh in mode pipelines or testplans while organization or
\* personalAccessToken is empty ends with the synthetic data displayed and a
\* non-null configuration-error message.
C8_UnconfiguredRefreshReportsError ==
    (RefreshEnded /\ EndedRun.dataSource \in {"pipelines", "testplans"}
                  /\ ~EndedRun.isConfigured)
        => /\ SyntheticDisplayed(EndedRun.env, EndedRun.date)
           /\ app.dataSourceError # Null

\* C10: a refresh in mode demo issues no request to the service, displays
\* only the output of the synthetic generators for its environment and date,
\* sets dataSourceError to null and leaves loading false, whatever the
\* connection settings are.
C10_DemoRefreshIsLocal ==
    (RefreshEnded /\ EndedRun.dataSource = "demo")
        => /\ EndedRun.requests = <<>>
           /\ SyntheticDisplayed(EndedRun.env, EndedRun.date)
           /\ app.dataSourceError = Null
           /\ app.loading = FALSE

\* a demo refresh has just returned with a complete connection configured,
\* while an earlier remote refresh is still waiting for the service
C10_Witness ==
    /\ RefreshEnded
    /\ EndedRun.dataSource = "demo"
    /\ EndedRun.isConfigured
    /\ app.runs # <<>>
    /\ app.loading = FALSE

-----------------------------------------------------------------------------
(* C11, C12 *)

\* a refresh that went to the service has just returned
RemoteRefreshEnded == RefreshEnded /\ EndedRun.branch # "fetchFromDemo"

AggregateCalls(run) ==
    SelectSeq(run.requests,
              LAMBDA c : c.op \in {"getProjectDataFromPipelines", "getProjectData"})

\* the aggregation of a project of the ended refresh yielded no Project
AggregationFailed(run, project) == Aggregate(run.branch, project, run.date).kind = "null"

\* C11: in a remote refresh over the project names P1..Pn the aggregation is
\* attempted for every project, in order, also after one that failed, and the
\* project list holds exactly the Projects of those that did not fail, in the
\* original order.
C11_FailedProjectsAreOmitted ==
    RemoteRefreshEnded =>
        LET run == EndedRun
            names == run.projectNames
            kept == SelectSeq(names, LAMBDA p : ~AggregationFailed(run, p))
        IN  /\ Len(AggregateCalls(run)) = Len(names)
            /\ \A i \in 1..Len(names) : AggregateCalls(run)[i].project = names[i]
            /\ Len(run.projectDataList) = Len(kept)
            /\ \A i \in 1..Len(kept) :
                   /\ run.projectDataList[i].kind = "project"
                   /\ run.projectDataList[i] = Aggregate(run.branch, kept[i], run.date)

\* the first project failed, the second was still aggregated and is in the list
C11_Witness ==
    /\ RemoteRefreshEnded
    /\ Len(EndedRun.projectNames) = 2
    /\ AggregationFailed(EndedRun, EndedRun.projectNames[1])
    /\ Len(AggregateCalls(EndedRun)) = 2
    /\ Len(EndedRun.projectDataList) = 1
    /\ EndedRun.projectDataList[1].projectName = EndedRun.projectNames[2]

\* C12: a remote refresh in which the aggregation of at least one project
\* failed ends with a non-null error message.
C12_FailureSurfacesError ==
    (RemoteRefreshEnded
        /\ \E i \in 1..Len(EndedRun.projectNames) :
               AggregationFailed(EndedRun, EndedRun.projectNames[i]))
        => app.dataSourceError # Null

-----------------------------------------------------------------------------
(* C13 *)

\* C13: createAzureDevOpsService returns null exactly when organization or
\* personalAccessToken is empty and a service otherwise, whatever baseUrl is,
\* and the store's isConfigured is true exactly when it would return a service.
C13_ServiceIffConfigured ==
    /\ app.created # NothingCreated =>
           LET config == app.created.config
           IN  /\ app.created.service.kind = "null"
                      <=> (config.organization = "" \/ config.personalAccessToken = "")
               /\ app.created.service.kind \in {"null", "service"}
               /\ \A b \in BaseUrls :
                      createAzureDevOpsService([config EXCEPT !.baseUrl = b]).kind
                          = app.created.service.kind
    /\ app.isConfigured
           <=> createAzureDevOpsService(app.settings.azureDevOps).kind = "service"

\* a service was made from settings with an empty base URL, and the store
\* has since lost its token
C13_Witness ==
    /\ app.created # NothingCreated
    /\ app.created.service.kind = "service"
    /\ app.created.config.baseUrl = ""
    /\ ~app.isConfigured
    /\ app.settings.azureDevOps.organization # ""

-----------------------------------------------------------------------------
(* C14 *)

-----------------------------------------------------------------------------
(* C15 *)

\* C15: after a test-plan refresh whose defect fetches all succeeded, every id
\* in a module's linkedDefects is the id of a Defect of the flat defect list,
\* and the render-time lookup returns one Defect per linked id.
C15_LinkedDefectsResolve ==
    (RemoteRefreshEnded /\ EndedRun.branch = "fetchFromTestPlans"
        /\ \A i \in 1..Len(EndedRun.projectNames) :
               Call("getDefects", EndedRun.projectNames[i]) \notin remote.fails)
        => \A p \in Range(EndedRun.projectDataList) :
             \A m \in Range(p.modules) :
                /\ \A i \in 1..Len(m.linkedDefects) :
                       \E d \in Range(EndedRun.allDefects) : d.id = m.linkedDefects[i]
                /\ Len(getLinkedDefects(EndedRun.allDefects, m.linkedDefects))
                       = Len(m.linkedDefects)

-----------------------------------------------------------------------------
(* C16 *)

SurvivingDefinitions == {b.definition.id : b \in SurvivingBuilds}

BuildsOf(definitionId) == {b \in SurvivingBuilds : b.definition.id = definitionId}

RunTotal(build) == SeqSum(Field(build.testRuns.value, "totalTests"))

RECURSIVE TotalOver(_)
TotalOver(builds) ==
    IF builds = {} THEN 0
    ELSE LET b == CHOOSE x \in builds : TRUE
         IN  RunTotal(b) + TotalOver(builds \ {b})

\* C16: with surviving builds, pipeline-centric aggregation returns a Project
\* with exactly one Module per distinct definition.id among them, with
\* moduleId "pipeline-" + definitionId and moduleName definition.name, and
\* with the counters of the module the sums over the builds of its definition.
C16_OneModulePerDefinition ==
    (app.dataSource = "pipelines" /\ pl.pc = "done" /\ ~remote.buildsFail
        /\ SurvivingBuilds # {})
    => /\ LastReturned.kind = "project"
       /\ Len(LastReturned.modules) = Cardinality(SurvivingDefinitions)
       /\ \A d \in SurvivingDefinitions :
            \E i \in 1..Len(LastReturned.modules) :
               LET m == LastReturned.modules[i]
               IN  /\ m.moduleId = "pipeline-" \o ToString(d)
                   /\ m.moduleName = DefinitionName(d)
                   /\ m.totalTests = TotalOver(BuildsOf(d))

-----------------------------------------------------------------------------
(* C17 *)

NoBuildHasRuns ==
    \A b \in Range(remote.builds) : ~b.testRuns.fail /\ b.testRuns.value = <<>>

\* C17: when the build listing succeeds and no build contributes a summary
\* (no builds, or every build has an empty test-run list),
\* getProjectDataFromPipelines returns a Project with no modules and with
\* totalTests, executed, passed, failed, skipped and passRate all 0.
C17_EmptyProject ==
    (app.dataSource = "pipelines" /\ pl.pc = "done" /\ ~remote.buildsFail
        /\ NoBuildHasRuns)
    => /\ LastReturned.kind = "project"
       /\ LastReturned.modules = <<>>
       /\ LastReturned.totalTests = 0
       /\ LastReturned.executed = 0
       /\ LastReturned.passed = 0
       /\ LastReturned.failed = 0
       /\ LastReturned.skipped = 0
       /\ LastReturned.passRate = Zero

\* two builds were listed, both with an empty test-run list, and the
\* aggregation has returned the all-zero Project
C17_Witness ==
    /\ app.dataSource = "pipelines"
    /\ pl.pc = "done"
    /\ ~remote.buildsFail
    /\ Len(remote.builds) = 2
    /\ NoBuildHasRuns
    /\ Len(reqLog) = 3
    /\ LastReturned.kind = "project"
    /\ LastReturned.totalTests = 0

-----------------------------------------------------------------------------
(* C18 *)

\* the positions in the build listing of the builds that survive
SurvivingPositions == {i \in 1..Len(remote.builds) : Survives(remote.builds[i])}

PipelineDone == app.dataSource = "pipelines" /\ pl.pc = "done" /\ ~remote.buildsFail

\* C18: a build is in the result of getTestResultsByPipelines exactly when its
\* test-run listing succeeded with at least one run and the result listing of
\* each of its runs succeeded; the survivors keep the listing order, carry the
\* totals of all their runs, and a build dropped after some of its runs were
\* counted leaves nothing behind.
C18_SurvivorsOnly ==
    PipelineDone =>
        LET res == pl.pipelineResults
        IN  /\ Len(res) = Cardinality(SurvivingPositions)
            /\ {res[i].buildId : i \in 1..Len(res)}
                   = {remote.builds[i].id : i \in SurvivingPositions}
            /\ \A i, j \in 1..Len(res) : i < j => res[i].buildId < res[j].buildId
            /\ \A i \in 1..Len(res) :
                   \E k \in SurvivingPositions :
                      /\ remote.builds[k].id = res[i].buildId
                      /\ res[i].totalTests = RunTotal(remote.builds[k])
                      /\ res[i].passed
                             = SeqSum(Field(remote.builds[k].testRuns.value, "passedTests"))

\* the first build lost its second run's results after the first run was
\* counted; the second build came through and is the only one in the result
C18_Witness ==
    /\ PipelineDone
    /\ Len(remote.builds) = 2
    /\ Len(remote.builds[1].testRuns.value) = 2
    /\ ~remote.builds[1].testRuns.value[1].results.fail
    /\ remote.builds[1].testRuns.value[2].results.fail
    /\ Survives(remote.builds[2])
    /\ Len(pl.pipelineResults) = 1
    /\ pl.pipelineResults[1].buildId = remote.builds[2].id

-----------------------------------------------------------------------------
(* C19, C20 *)

\* C19: during a pipeline-centric aggregation at most one request is
\* outstanding, and it is the one issued last: a request is issued only after
\* every earlier request of the aggregation has been answered or has failed.
C19_OneRequestAtATime ==
    app.dataSource = "pipelines" =>
        /\ Cardinality(inflight) <= 1
        /\ \A q \in inflight : reqLog # <<>> /\ q = reqLog[Len(reqLog)]
        /\ pl.pc \in {"builds", "testRuns", "results"} => Cardinality(inflight) = 1

\* the results of the second run of the second build are awaited, alone
C19_Witness ==
    /\ app.dataSource = "pipelines"
    /\ pl.pc = "results"
    /\ pl.bi = 2
    /\ pl.ri = 2
    /\ inflight = {Req("getTestResults", RunId(remote.builds[2], 2))}
    /\ Len(reqLog) >= 5

NeverRetried ==
    {"getBuildsByDate", "getTestRunsForBuild", "getTestResults",
     "getAreaPaths", "getTestRuns"}

\* C20: within one aggregation no request is issued twice: the build listing,
\* each build's test-run listing, each run's result listing, the area-path
\* listing and the project's test-run listing appear at most once among the
\* requests of the invocation, whether they succeeded or failed.
C20_NoRetry ==
    app.dataSource \in {"pipelines", "testplans"} =>
        \A i, j \in 1..Len(reqLog) :
            (i < j /\ reqLog[i].op \in NeverRetried) => reqLog[i] # reqLog[j]

\* an aggregation has returned after the test-run listing of a build failed
\* and was asked for once
C20_Witness ==
    /\ app.dataSource = "pipelines"
    /\ pl.pc = "done"
    /\ ~remote.buildsFail
    /\ \E k \in 1..Len(remote.builds) :
         /\ remote.builds[k].testRuns.fail
         /\ Len(SelectSeq(reqLog, LAMBDA q :
                    q = Req("getTestRunsForBuild", remote.builds[k].id))) = 1

-----------------------------------------------------------------------------
(* C21, C22 *)

C22_ResultsClassified ==
    (PipelineDone /\ pl.pipelineResults # <<>>)
    => /\ LastReturned.kind = "project"
       /\ LastReturned.modules # <<>>
       /\ \A i \in 1..Len(LastReturned.modules) :
            LET m == LastReturned.modules[i]
            IN  m.automated.total + m.manual.total = Len(pl.pipelineResults[i].results)

-----------------------------------------------------------------------------
(* C23 *)

SumOfRuns(runs, counter) == SeqSum(Field(runs, counter))

\* C23: in the Project of the test-plan-centric aggregation the automated
\* Breakdown holds the sums of total, passed, failed and skipped over the runs
\* with isAutomated true, the manual Breakdown the sums over the other runs.
C23_BreakdownsFollowRunFlag ==
    app.dataSource = "testplans" =>
        \A p \in ReturnedProjects :
            LET auto == SelectSeq(remote.testRuns, LAMBDA r : r.isAutomated)
                man == SelectSeq(remote.testRuns, LAMBDA r : ~r.isAutomated)
            IN  /\ p.automated.total = SumOfRuns(auto, "totalTests")
                /\ p.automated.passed = SumOfRuns(auto, "passedTests")
                /\ p.automated.failed = SumOfRuns(auto, "failedTests")
                /\ p.automated.skipped = SumOfRuns(auto, "notApplicableTests")
                /\ p.manual.total = SumOfRuns(man, "totalTests")
                /\ p.manual.passed = SumOfRuns(man, "passedTests")
                /\ p.manual.failed = SumOfRuns(man, "failedTests")
                /\ p.manual.skipped = SumOfRuns(man, "notApplicableTests")

-----------------------------------------------------------------------------
(* C24 *)

DefectCalls(run, project) ==
    SelectSeq(run.requests, LAMBDA c : c = Call("getDefects", project))

\* the defects of the projects whose query succeeds, in project order
RECURSIVE DefectsOfSucceeding(_, _)
DefectsOfSucceeding(names, env) ==
    IF names = <<>> THEN <<>>
    ELSE (IF Call("getDefects", Head(names)) \in remote.fails THEN <<>>
          ELSE transformDefects(AppBugs(Head(names)), env))
         \o DefectsOfSucceeding(Tail(names), env)

-----------------------------------------------------------------------------
(* The synthetic data generator: getProjectsData *)

MockEnvironments == {"QA", "Stage", "UAT", "Prod", "Perf"}   \* "Perf": a custom name

\* { QA: 1.1, Stage: 1, UAT: 0.95, Prod: 0.98 }[env || 'Stage'] || 1, in hundredths
envMultiplier(env) ==
    CASE env = "QA" -> 110
      [] env = "UAT" -> 95
      [] env = "Prod" -> 98
      [] OTHER -> 100

\* values of Math.random(), in tenths: those drawn for runVariance and those
\* drawn for prevVariance. On these values the doubles of the code and the
\* exact quotients below floor and round to the same numbers.
RunRandoms == {0, 2, 6, 8, 9}
PrevRandoms == {0, 2, 5, 8}

Counters(id, totalTests, executed, passed, failed, skipped, passRate10) ==
    [id |-> id, totalTests |-> totalTests, executed |-> executed, passed |-> passed,
     failed |-> failed, skipped |-> skipped, passRate |-> Num(passRate10, 10)]

Linked(module, linkedDefects) ==
    [f \in DOMAIN module \cup {"linkedDefects"} |->
        IF f = "linkedDefects" THEN linkedDefects ELSE module[f]]

WithModules(project, modules) ==
    [f \in DOMAIN project \cup {"modules"} |->
        IF f = "modules" THEN modules ELSE project[f]]

\* the literal of lines 327-392
projects ==
    <<WithModules(Counters("PRJ-001", 450, 444, 395, 42, 7, 890),
         <<Linked(Counters("MOD-001", 150, 148, 140, 5, 3, 946), <<"DEF-002">>),
           Linked(Counters("MOD-002", 85, 85, 72, 13, 0, 847), <<"DEF-003">>),
           Linked(Counters("MOD-003", 120, 118, 95, 21, 2, 805), <<"DEF-001", "DEF-006">>),
           Linked(Counters("MOD-004", 95, 93, 88, 3, 2, 946), <<>>)>>),
       WithModules(Counters("PRJ-002", 300, 297, 282, 12, 3, 949),
         <<Linked(Counters("MOD-005", 80, 80, 78, 2, 0, 975), <<>>),
           Linked(Counters("MOD-006", 110, 108, 100, 6, 2, 926), <<"DEF-001">>),
           Linked(Counters("MOD-007", 65, 64, 60, 3, 1, 938), <<>>),
           Linked(Counters("MOD-008", 45, 45, 44, 1, 0, 978), <<>>)>>),
       WithModules(Counters("PRJ-003", 200, 197, 183, 11, 3, 929),
         <<Linked(Counters("MOD-009", 55, 54, 50, 3, 1, 926), <<"DEF-006">>),
           Linked(Counters("MOD-010", 40, 40, 38, 2, 0, 950), <<>>),
           Linked(Counters("MOD-011", 70, 68, 62, 4, 2, 912), <<"DEF-004">>),
           Linked(Counters("MOD-012", 35, 35, 33, 2, 0, 943), <<>>)>>),
       WithModules(Counters("PRJ-004", 215, 211, 197, 10, 4, 934),
         <<Linked(Counters("MOD-013", 90, 88, 82, 4, 2, 932), <<>>),
           Linked(Counters("MOD-014", 75, 73, 68, 3, 2, 932), <<>>),
           Linked(Counters("MOD-015", 50, 50, 47, 3, 0, 940), <<>>)>>)>>

\* the counters one map callback writes over a project or a module (lines
\* 399-408 and 423-437): runVariance is random * 0.05 today and 0 on another
\* day, prevVariance is 0.95 + random * 0.1
Rerun(x, env, isToday, runRandom, prevRandom) ==
    LET em == envMultiplier(env)
        runVariance == IF isToday THEN runRandom * 5 ELSE 0      \* in thousandths
        prevVariance == 95 + prevRandom                          \* in hundredths
        currentPassed == (x.passed * em * (1000 + runVariance)) \div 100000
        previousPassed == (x.passed * em * prevVariance) \div 10000
    IN  [f \in DOMAIN x \cup {"previousRun"} |->
            CASE f = "passed" -> currentPassed
              [] f = "failed" -> (x.failed * 100) \div em
              [] f = "passRate" -> toFixed1(DivTimes100(currentPassed, x.executed))
              [] f = "previousRun" ->
                    [passed |-> previousPassed,
                     failed |-> (x.failed * 10000) \div (em * prevVariance),
                     skipped |-> x.skipped,
                     passRate |-> toFixed1(DivTimes100(previousPassed, x.executed))]
              [] OTHER -> x[f]]

\* lines 398-441; the timestamps are left out. One prevVariance is drawn per
\* project: the model draws the same value for every project.
ProjectsData(env, isToday, runRandom, prevRandom) ==
    [i \in 1..Len(projects) |->
        LET p == Rerun(projects[i], env, isToday, runRandom, prevRandom)
        IN  [f \in DOMAIN p \cup {"kind", "runCount"} |->
                CASE f = "kind" -> "project"
                  [] f = "runCount" -> IF isToday THEN 5 ELSE 3
                  [] f = "modules" ->
                        [j \in 1..Len(p.modules) |->
                            Rerun(p.modules[j], env, isToday, runRandom, prevRandom)]
                  [] OTHER -> p[f]]]

GetProjectsData ==
    /\ app.dataSource = "generator"
    /\ \E env \in MockEnvironments, isToday \in BOOLEAN,
          runRandom \in RunRandoms, prevRandom \in PrevRandoms :
         /\ app' = [dataSource |-> "generator", env |-> env, isToday |-> isToday,
                    runVariance |-> IF isToday THEN runRandom * 5 ELSE 0,
                    prevVariance |-> 95 + prevRandom]
         /\ returned' = ProjectsData(env, isToday, runRandom, prevRandom)
    /\ UNCHANGED <<remote, inflight, reqLog, calls, gpd, gd, pl>>

GeneratorInit ==
    /\ remote = [kind |-> "none"]
    /\ inflight = {}
    /\ reqLog = <<>>
    /\ calls = 0
    /\ gpd = gpdIdle
    /\ gd = gdIdle
    /\ pl = plIdle
    /\ returned = <<>>
    /\ app = [dataSource |-> "generator"]

SpecGenerator == GeneratorInit /\ [][GetProjectsData]_vars

-----------------------------------------------------------------------------
(* C29 *)

InPercentRange(x) == x.kind = "num" /\ 0 <= x.n /\ x.n <= 100 * x.d

\* C29: every passRate of a Project, of a Module and of a Breakdown that an
\* aggregation or the synthetic data generator returns lies in [0, 100].
C29_PassRateInRange ==
    \A p \in ReturnedProjects :
        /\ InPercentRange(p.passRate)
        /\ \A m \in Range(p.modules) : InPercentRange(m.passRate)
        /\ \A b \in {"automated", "manual"} :
              b \in DOMAIN p => InPercentRange(p[b].passRate)

-----------------------------------------------------------------------------
(* The deep-link builders of azureDevOpsUrls.ts. A URL is the sequence of the
   pieces its template literal concatenates. *)

UrlConfigs ==
    {Null} \cup {[kind |-> "config", baseUrl |-> DefaultBaseUrl, organization |-> o] :
                    o \in {"", "contoso"}}
UrlProjects == {"P", "A B"}
UrlArgs == {"", "7", "All"}       \* an omitted or empty argument, and two values
Builders ==
    {"workItemUrl", "testRunsUrl", "testRunUrl", "testResultsQueryUrl",
     "pipelineRunsUrl", "workItemsQueryUrl", "boardsUrl"}

\* on the project names of UrlProjects: a space is escaped, letters are kept
encodeURIComponent(s) == IF s = "A B" THEN "A%20B" ELSE s

base(config) ==
    IF config = Null THEN <<"">> ELSE <<config.baseUrl, "/", config.organization>>

\* the seven builders; arg is the second argument (workItemId, runId, outcome,
\* definitionId, state), the later optional arguments are omitted
DeepLink(builder, config, project, arg) ==
    IF config = Null THEN <<"#">>
    ELSE LET root == base(config) \o <<"/", encodeURIComponent(project)>>
         IN  CASE builder = "workItemUrl" -> root \o <<"/_workitems/edit/", arg>>
               [] builder = "testRunsUrl" -> root \o <<"/_testManagement/runs">>
               [] builder = "testRunUrl" ->
                    root \o <<"/_testManagement/runs?runId=", arg, "&_a=resultSummary">>
               [] builder = "testResultsQueryUrl" ->
                    root \o <<"/_testManagement/runs", "?", "_a=runQuery">>
                         \o (IF arg # "" /\ arg # "All"
                             THEN <<"&outcomeFilter=", arg>> ELSE <<>>)
               [] builder = "pipelineRunsUrl" ->
                    root \o <<"/_build">>
                         \o (IF arg # "" THEN <<"?definitionId=", arg>> ELSE <<>>)
               [] builder = "workItemsQueryUrl" ->
                    root \o <<"/_workitems?_a=query&wiql=", "Bug">>
                         \o (IF arg # "" THEN <<"State", arg>> ELSE <<>>)
               [] builder = "boardsUrl" -> root \o <<"/_boards/board">>

isAzDoConfigured(config) == config # Null /\ config.organization # ""

initAzDoUrls ==
    /\ app.dataSource = "urls"
    /\ \E config \in UrlConfigs : app' = [app EXCEPT !.config = config]
    /\ UNCHANGED <<remote, inflight, reqLog, calls, gpd, gd, pl, returned>>

\* a component calls isAzDoConfigured() and one builder
BuildUrl ==
    /\ app.dataSource = "urls"
    /\ \E builder \in Builders, project \in UrlProjects, arg \in UrlArgs :
         /\ app' = [app EXCEPT !.call = [builder |-> builder, project |-> project,
                                         arg |-> arg,
                                         configured |-> isAzDoConfigured(app.config)]]
         /\ returned' = <<DeepLink(builder, app.config, project, arg)>>
    /\ UNCHANGED <<remote, inflight, reqLog, calls, gpd, gd, pl>>

UrlsInit ==
    /\ remote = [kind |-> "none"]
    /\ inflight = {}
    /\ reqLog = <<>>
    /\ calls = 0
    /\ gpd = gpdIdle
    /\ gd = gdIdle
    /\ pl = plIdle
    /\ returned = <<>>
    /\ app = [dataSource |-> "urls", config |-> Null, call |-> Null]

UrlsNext == initAzDoUrls \/ BuildUrl

SpecUrls == UrlsInit /\ [][UrlsNext]_vars

-----------------------------------------------------------------------------
(* C25 *)

\* C25: a deep-link builder called in a state in which isAzDoConfigured() is
\* false (no config, or an empty organization) returns '#'.
C25_UnconfiguredGivesHash ==
    (app.dataSource = "urls" /\ app.call # Null /\ ~app.call.configured)
    => returned = <<<<"#">>>>

-----------------------------------------------------------------------------
(* The settings provider with role-based access control: every operation of
   SettingsContext on the whole Settings object. A section stands for one of
   its fields; lastUpdated is "load" (the time the module was loaded) or
   "later" (the time of a write). *)

MaxProjects == 1          \* most projects in settings.projects
MaxEnvironments == 2      \* most environments in settings.environments

currentUserEmail == "admin@example.com"          \* MOCK_CURRENT_USER.email
EmailLists == {<<>>, <<"Admin@Example.com">>}
toLowerCase(e) == IF e = "Admin@Example.com" THEN "admin@example.com" ELSE e

RBACConfigs == [enabled : BOOLEAN, adminEmails : EmailLists, leadEmails : EmailLists]

DEFAULT_ENVIRONMENTS ==
    <<[id |-> "qa", order |-> 1, enabled |-> TRUE],
      [id |-> "stage", order |-> 2, enabled |-> TRUE]>>

defaultSettings ==
    [azureDevOps |-> [organization |-> ""],
     projects |-> <<>>,
     dashboard |-> [compactView |-> TRUE],
     branding |-> [dashboardName |-> "Test Automation Dashboard"],
     environments |-> DEFAULT_ENVIRONMENTS,
     notifications |-> [emailNotifications |-> FALSE],
     rbac |-> [enabled |-> FALSE, adminEmails |-> <<>>, leadEmails |-> <<>>],
     lastUpdated |-> "load"]

getUserRole(settings) ==
    LET rbac == settings.rbac
        userEmail == toLowerCase(currentUserEmail)
    IN  IF ~rbac.enabled THEN "admin"
        ELSE IF userEmail \in Range([i \in DOMAIN rbac.adminEmails |->
                                        toLowerCase(rbac.adminEmails[i])]) THEN "admin"
        ELSE IF userEmail \in Range([i \in DOMAIN rbac.leadEmails |->
                                        toLowerCase(rbac.leadEmails[i])]) THEN "lead"
        ELSE "viewer"

\* { ...prev, ...partial }
Spread(prev, partial) ==
    [k \in DOMAIN prev \cup DOMAIN partial |->
        IF k \in DOMAIN partial THEN partial[k] ELSE prev[k]]

\* one operation: the guard's early return, or setSettings with a new lastUpdated
Operation(op, permitted, partial) ==
    /\ app.dataSource = "rbac"
    /\ app' = [app EXCEPT !.last = op,
                          !.settings = IF permitted
                                       THEN Spread(@, Spread(partial, [lastUpdated |-> "later"]))
                                       ELSE @]
    /\ UNCHANGED <<remote, inflight, reqLog, calls, gpd, gd, pl, returned>>

canEditSettings == checkWritePermission(getUserRole(app.settings))

SectionUpdates(section) ==
    CASE section = "azureDevOps" -> {[organization |-> "contoso"]}
      [] section = "dashboard" -> {[compactView |-> FALSE]}
      [] section = "branding" -> {[dashboardName |-> "QA"]}
      [] section = "notifications" -> {[emailNotifications |-> TRUE]}
      [] section = "rbac" -> {[enabled |-> b] : b \in BOOLEAN}
                             \cup {[adminEmails |-> l] : l \in EmailLists}
                             \cup {[leadEmails |-> l] : l \in EmailLists}

updateSettings ==
    \E section \in {"dashboard", "rbac"} : \E u \in SectionUpdates(section) :
        Operation("updateSettings", canEditSettings,
                  [k \in {section} |-> Spread(app.settings[section], u)])

UpdateSection(op, section, permitted) ==
    \E u \in SectionUpdates(section) :
        Operation(op, permitted, [k \in {section} |-> Spread(app.settings[section], u)])

CtxUpdateAzureDevOpsConfig ==
    UpdateSection("updateAzureDevOpsConfig", "azureDevOps", canEditSettings)
CtxUpdateDashboardSettings ==
    UpdateSection("updateDashboardSettings", "dashboard", canEditSettings)
updateBrandingSettings ==
    UpdateSection("updateBrandingSettings", "branding", canEditSettings)
updateNotificationSettings ==
    UpdateSection("updateNotificationSettings", "notifications", canEditSettings)

\* mutant of updateRBACConfig: guarded like the other updates
updateRBACConfigForEditors ==
    UpdateSection("updateRBACConfig", "rbac", canEditSettings)

updateRBACConfig ==
    UpdateSection("updateRBACConfig", "rbac", getUserRole(app.settings) = "admin")

ProjectIds == {"p1", "p9"}
NewProject ==
    [id |-> "p1", enabled |-> TRUE, pipelines |-> <<[id |-> "pl1", enabled |-> TRUE]>>]

MapWhere(list, id, f(_)) == [i \in DOMAIN list |-> IF list[i].id = id THEN f(list[i]) ELSE list[i]]

ProjectsOperation(op, list) ==
    Operation(op, canEditSettings, [projects |-> list])

addProject ==
    /\ Len(app.settings.projects) < MaxProjects
    /\ ProjectsOperation("addProject", Append(app.settings.projects, NewProject))

removeProject ==
    \E projectId \in ProjectIds :
        ProjectsOperation("removeProject",
                          SelectSeq(app.settings.projects, LAMBDA p : p.id # projectId))

updateProject ==
    \E projectId \in ProjectIds :
        ProjectsOperation("updateProject",
                          MapWhere(app.settings.projects, projectId,
                                   LAMBDA p : Spread(p, [enabled |-> FALSE])))

toggleProjectEnabled ==
    \E projectId \in ProjectIds :
        ProjectsOperation("toggleProjectEnabled",
                          MapWhere(app.settings.projects, projectId,
                                   LAMBDA p : [p EXCEPT !.enabled = ~@]))

togglePipelineEnabled ==
    \E projectId \in ProjectIds, pipelineId \in {"pl1", "pl9"} :
        ProjectsOperation("togglePipelineEnabled",
                          MapWhere(app.settings.projects, projectId,
                                   LAMBDA p : [p EXCEPT !.pipelines =
                                        MapWhere(@, pipelineId,
                                                 LAMBDA l : [l EXCEPT !.enabled = ~@])]))

EnvironmentIds == {"qa", "uat"}

EnvironmentsOperation(op, list) ==
    Operation(op, canEditSettings, [environments |-> list])

addEnvironment ==
    /\ Len(app.settings.environments) < MaxEnvironments
    /\ EnvironmentsOperation("addEnvironment",
                             Append(app.settings.environments,
                                    [id |-> "uat", order |-> 3, enabled |-> TRUE]))

updateEnvironment ==
    \E envId \in EnvironmentIds :
        EnvironmentsOperation("updateEnvironment",
                              MapWhere(app.settings.environments, envId,
                                       LAMBDA e : Spread(e, [enabled |-> FALSE])))

removeEnvironment ==
    \E envId \in EnvironmentIds :
        EnvironmentsOperation("removeEnvironment",
                              SelectSeq(app.settings.environments, LAMBDA e : e.id # envId))

\* the argument is the current list dragged into another order
reorderEnvironments ==
    LET envs == app.settings.environments
        n == Len(envs)
    IN  \E f \in {g \in [1..n -> 1..n] : \A i \in 1..n : \E j \in 1..n : g[j] = i} :
            EnvironmentsOperation("reorderEnvironments",
                                  [i \in 1..n |-> [envs[f[i]] EXCEPT !.order = i]])

resetEnvironments == EnvironmentsOperation("resetEnvironments", DEFAULT_ENVIRONMENTS)

\* setSettings(defaultSettings): lastUpdated is the one of defaultSettings
resetSettings ==
    /\ app.dataSource = "rbac"
    /\ app' = [app EXCEPT !.last = "resetSettings",
                          !.settings = IF getUserRole(app.settings) = "admin"
                                       THEN defaultSettings ELSE @]
    /\ UNCHANGED <<remote, inflight, reqLog, calls, gpd, gd, pl, returned>>

\* the settings are the defaults or what localStorage holds: any RBAC config
RbacInit ==
    /\ remote = [kind |-> "none"]
    /\ inflight = {}
    /\ reqLog = <<>>
    /\ calls = 0
    /\ gpd = gpdIdle
    /\ gd = gdIdle
    /\ pl = plIdle
    /\ returned = <<>>
    /\ app \in {[dataSource |-> "rbac", last |-> "load",
                 settings |-> [defaultSettings EXCEPT !.rbac = r]] : r \in RBACConfigs}

RbacNext ==
    \/ updateSettings
    \/ CtxUpdateAzureDevOpsConfig
    \/ CtxUpdateDashboardSettings
    \/ updateBrandingSettings
    \/ updateNotificationSettings
    \/ updateRBACConfig
    \/ addProject
    \/ removeProject
    \/ updateProject
    \/ toggleProjectEnabled
    \/ togglePipelineEnabled
    \/ addEnvironment
    \/ updateEnvironment
    \/ removeEnvironment
    \/ reorderEnvironments
    \/ resetEnvironments
    \/ resetSettings

SpecRbac == RbacInit /\ [][RbacNext]_vars

-----------------------------------------------------------------------------
(* C26 *)

-----------------------------------------------------------------------------
(* C27 *)

\* the Projects a remote refresh of these projects displays for a date
RECURSIVE ProjectsFetchedFor(_, _, _)
ProjectsFetchedFor(branch, names, date) ==
    IF names = <<>> THEN <<>>
    ELSE LET data == Aggregate(branch, Head(names), date)
         IN  (IF data.kind = "null" THEN <<>> ELSE <<data>>)
             \o ProjectsFetchedFor(branch, Tail(names), date)

\* the last refresh to return was a remote one, none is in flight, no error is
\* displayed and the settings still select its branch
AllRefreshesCompleted ==
    /\ RemoteRefreshEnded
    /\ app.runs = <<>>
    /\ app.dataSourceError = Null
    /\ EndedRun.projectNames # <<>>
    /\ RefreshBranch(dataSource(app.settings), isConfigured(app.settings)) = EndedRun.branch

\* C27: once all refreshes have completed, the displayed projects and defects
\* are those fetched for the selected environment and date, also when a change
\* of selection started a refresh while an earlier one was still in flight.
C27_LatestSelectionDisplayed ==
    AllRefreshesCompleted
    => /\ app.projects = Fetched(ProjectsFetchedFor(EndedRun.branch, EndedRun.projectNames,
                                                    app.selectedDate))
       /\ app.defects = Fetched(DefectsOfSucceeding(EndedRun.projectNames,
                                                    app.selectedEnvironment))

-----------------------------------------------------------------------------
(* C28 *)

\* the service answers a request that is waiting, or lets it fail
Respond == ProjectsResponse \/ AggregationResponse \/ DefectsResponse

\* the application when a waiting request is eventually answered or fails
SpecAppLive == AppInit /\ [][AppNext]_vars /\ WF_vars(Respond)

\* C28: when every request is eventually answered or fails, every call of
\* refreshData eventually returns and sets loading to false: from a state with
\* a refresh in flight a state is reached with none in flight and loading false.
C28_LoadingEventuallyFalse ==
    (app.runs # <<>>) ~> (app.runs = <<>> /\ app.loading = FALSE)

\* a remote refresh whose project listing failed has returned; loading is false
C28_Witness ==
    /\ RemoteRefreshEnded
    /\ Call("getProjects", "") \in remote.fails
    /\ EndedRun.requests = <<Call("getProjects", "")>>
    /\ app.runs = <<>>
    /\ app.loading = FALSE

-----------------------------------------------------------------------------
(* C30 *)

ThreeFetches == {Req("getTestRuns", 0), Req("getAreaPaths", 0), Req("wiql", 0)}

\* a request that getProjectData issues with these remote data fails
SomeFetchFails ==
    \/ remote.fails \cap {"getTestRuns", "getAreaPaths", "wiql"} # {}
    \/ "workitems" \in remote.fails /\ remote.bugs # <<>>

\* C30: getProjectData has issued its three fetches before any of them is
\* answered; it returns exactly once per call, and when one of its requests
\* fails what it returns is null, never a Project and never a throw.
C30_AllOrNothing ==
    (app.dataSource = "testplans" /\ gpd.pc # "idle")
    => /\ Len(reqLog) >= 3
       /\ {reqLog[i] : i \in 1..3} = ThreeFetches
       /\ gpd.pc = "await" => Len(returned) = calls - 1
       /\ gpd.pc = "done" => /\ Len(returned) = calls
                             /\ LastReturned.kind \in {"null", "project"}
                             /\ SomeFetchFails => LastReturned = Null
                             /\ ~SomeFetchFails => LastReturned.kind = "project"

\* only the area paths fail: null has been returned while the test runs are
\* still being fetched and the defects have arrived
C30_Witness ==
    /\ app.dataSource = "testplans"
    /\ remote.fails = {"getAreaPaths"}
    /\ gpd.pc = "done"
    /\ gpd.defects.got
    /\ Req("getTestRuns", 0) \in inflight
    /\ LastReturned = Null

====
